---- MODULE Spec2Model ----
(***************************************************************************)
(* Clotho dataset creation: text normalisation, vocabulary construction,   *)
(* per-entry record materialisation and the verification pass.             *)
(*                                                                         *)
(* A string is a sequence of one-character strings; a word and a token of  *)
(* the character list are strings too.  List positions are Python's:       *)
(* 0-based, negative positions count from the end.                         *)
(***************************************************************************)
EXTENDS Integers, Sequences, FiniteSets, TLC

(***************************************************************************)
(* Bounds of the model.                                                    *)
(***************************************************************************)
\* longest free caption of the first annotation entry
MaxCapLen == 3
\* largest hash seed of a Python process (orders the iteration of a set)
MaxHashSeed == 1

\* characters a raw caption is made of
Alphabet == {"a", " ", "."}

\* settings_ann['nb_captions']: caption columns used per annotation entry
nb_captions == 2

(***************************************************************************)
(* Strings.                                                                *)
(***************************************************************************)
RECURSIVE StringsUpTo(_)
StringsUpTo(n) ==
    IF n = 0 THEN {<<>>}
    ELSE LET shorter == StringsUpTo(n - 1)
         IN  shorter \cup {Append(s, c) : s \in shorter, c \in Alphabet}

\* the non-empty captions of at most n characters
CaptionsUpTo(n) == StringsUpTo(n) \ {<<>>}

SOS_UPPER == <<"<", "S", "O", "S", ">", " ">>
SOS_LOWER == <<"<", "s", "o", "s", ">", " ">>
EOS_UPPER == <<" ", "<", "E", "O", "S", ">">>
EOS_LOWER == <<" ", "<", "e", "o", "s", ">">>
\* the dedicated tokens of the character list
SOS_TOKEN == <<"<", "s", "o", "s", ">">>
EOS_TOKEN == <<"<", "e", "o", "s", ">">>

\* str.lower() on one character
LowerChar(c) ==
    CASE c = "A" -> "a"
      [] c = "S" -> "s"
      [] c = "O" -> "o"
      [] c = "E" -> "e"
      [] OTHER   -> c

Lower(s) == [i \in 1..Len(s) |-> LowerChar(s[i])]

StartsWith(s, pat) == Len(pat) <= Len(s) /\ SubSeq(s, 1, Len(pat)) = pat

\* str.replace(pat, ''): every non-overlapping occurrence, left to right
RECURSIVE StrRemove(_, _)
StrRemove(s, pat) ==
    IF Len(s) < Len(pat) THEN s
    ELSE IF StartsWith(s, pat)
         THEN StrRemove(SubSeq(s, Len(pat) + 1, Len(s)), pat)
         ELSE <<Head(s)>> \o StrRemove(Tail(s), pat)

\* the characters of the class [,.!?;:"]
Punctuation == {",", ".", "!", "?", ";", ":", "\""}

\* re.sub('[,.!?;:"]', ' ', s)
SubPunctuation(s) ==
    [i \in 1..Len(s) |-> IF s[i] \in Punctuation THEN " " ELSE s[i]]

clean_sentence(sentence, keep_case, remove_punctuation, remove_specials) ==
    LET cased    == IF keep_case THEN sentence ELSE Lower(sentence)
        no_sos   == IF remove_specials
                    THEN StrRemove(StrRemove(cased, SOS_UPPER), SOS_LOWER)
                    ELSE cased
        no_eos   == IF remove_specials
                    THEN StrRemove(StrRemove(no_sos, EOS_UPPER), EOS_LOWER)
                    ELSE no_sos
    IN  IF remove_punctuation THEN SubPunctuation(no_eos) ELSE no_eos

\* str.strip().split(): the maximal runs of non-blank characters
RECURSIVE SplitAcc(_, _, _)
SplitAcc(s, cur, acc) ==
    IF s = <<>>
    THEN IF cur = <<>> THEN acc ELSE Append(acc, cur)
    ELSE IF Head(s) = " "
         THEN SplitAcc(Tail(s), <<>>, IF cur = <<>> THEN acc ELSE Append(acc, cur))
         ELSE SplitAcc(Tail(s), Append(cur, Head(s)), acc)

Split(s) == SplitAcc(s, <<>>, <<>>)

\* sep.join(parts)
RECURSIVE Join(_, _)
Join(sep, parts) ==
    IF parts = <<>> THEN <<>>
    ELSE IF Len(parts) = 1 THEN parts[1]
    ELSE parts[1] \o sep \o Join(sep, Tail(parts))

\* itertools.chain.from_iterable
RECURSIVE Chain(_)
Chain(lists) == IF lists = <<>> THEN <<>> ELSE Head(lists) \o Chain(Tail(lists))

(***************************************************************************)
(* Lists, sets and counters.                                               *)
(***************************************************************************)
InList(list, x) == \E i \in 1..Len(list) : list[i] = x

\* the distinct elements, each at its first occurrence
RECURSIVE Distinct(_, _)
Distinct(list, seen) ==
    IF list = <<>> THEN seen
    ELSE Distinct(Tail(list),
                  IF InList(seen, Head(list)) THEN seen ELSE Append(seen, Head(list)))

Remove(list, k) == SubSeq(list, 1, k - 1) \o SubSeq(list, k + 1, Len(list))

\* the arrangement number n of a list (n = 0 leaves it as it is)
RECURSIVE Arrangement(_, _)
Arrangement(list, n) ==
    IF list = <<>> THEN <<>>
    ELSE LET k == (n % Len(list)) + 1
         IN  <<list[k]>> \o Arrangement(Remove(list, k), n \div Len(list))

\* list(set(words)): the distinct words, in the order the process's string
\* hashing gives them
list_of_set(words, seed) == Arrangement(Distinct(words, <<>>), seed)

Count(list, x) == Cardinality({i \in 1..Len(list) : list[i] = x})

Reverse(list) == [i \in 1..Len(list) |-> list[Len(list) + 1 - i]]

\* the keys in the order of their last occurrence, latest first
CounterKeysLatestFirst(tokens) == Distinct(Reverse(tokens), <<>>)

\* list(Counter(tokens).keys()), list(Counter(tokens).values())
CounterKeys(tokens) == Distinct(tokens, <<>>)
CounterValues(tokens) ==
    LET keys == CounterKeys(tokens)
    IN  [i \in 1..Len(keys) |-> Count(tokens, keys[i])]

\* the position of the first x, counted from 1
list_index_from_one(list, x) == CHOOSE i \in 1..Len(list) :
                                   list[i] = x /\ \A j \in 1..(i - 1) : list[j] # x

\* list.index(x): the 0-based position of the first x
list_index(list, x) == (CHOOSE i \in 1..Len(list) :
                            list[i] = x /\ \A j \in 1..(i - 1) : list[j] # x) - 1

\* list[i] is defined for -len <= i < len
ValidIndex(list, i) == -Len(list) <= i /\ i < Len(list)
list_getitem(list, i) == IF i >= 0 THEN list[i + 1] ELSE list[Len(list) + i + 1]

(***************************************************************************)
(* Tokenisation.                                                           *)
(***************************************************************************)
get_sentence_words(sentence, unique, keep_case, remove_punctuation, remove_specials, seed) ==
    LET words == Split(clean_sentence(sentence, keep_case, remove_punctuation,
                                      remove_specials))
    IN  IF unique THEN list_of_set(words, seed) ELSE words

\* the word tokens with unique=True passed whatever the setting
words_caption_unique(caption, s, seed) ==
    get_sentence_words(caption, TRUE, s.keep_case,
                       s.remove_punctuation_words, ~s.use_special_tokens, seed)

\* the word tokens of a caption under the annotation settings
words_caption(caption, s, seed) ==
    get_sentence_words(caption, s.use_unique_words_per_caption, s.keep_case,
                       s.remove_punctuation_words, ~s.use_special_tokens, seed)

\* list(chain.from_iterable(str)): one token per character
Tokens(s) == [i \in 1..Len(s) |-> <<s[i]>>]

\* the character tokens of a caption in create_split_data_sub
chars_caption(caption, s) ==
    LET chars == Tokens(clean_sentence(caption, s.keep_case,
                                       s.remove_punctuation_chars, TRUE))
    IN  IF s.use_special_tokens
        THEN <<SOS_TOKEN, <<" ">>>> \o chars \o <<<<" ">>, EOS_TOKEN>>
        ELSE chars

(***************************************************************************)
(* Vocabulary construction.                                                *)
(***************************************************************************)
get_words_counter(captions, s, seed) ==
    Chain([i \in 1..Len(captions) |-> words_caption(captions[i], s, seed)])

\* a builder that counts each special token once, however many captions
create_lists_and_frequencies_once(captions, s, seed) ==
    LET counter_words    == get_words_counter(captions, s, seed)
        characters_all   == Chain([i \in 1..Len(captions) |->
                                      Tokens(clean_sentence(captions[i], s.keep_case,
                                                            s.remove_punctuation_chars,
                                                            TRUE))])
        counter_chars    == IF s.use_special_tokens
                            THEN characters_all \o <<SOS_TOKEN, EOS_TOKEN>>
                            ELSE characters_all
    IN  [words_list        |-> CounterKeys(counter_words),
         frequencies_words |-> CounterValues(counter_words),
         chars_list        |-> CounterKeys(counter_chars),
         frequencies_chars |-> CounterValues(counter_chars)]

\* the four artifacts create_lists_and_frequencies persists
create_lists_and_frequencies(captions, s, seed) ==
    LET counter_words    == get_words_counter(captions, s, seed)
        cleaned_captions == [i \in 1..Len(captions) |->
                                clean_sentence(captions[i], s.keep_case,
                                               s.remove_punctuation_chars, TRUE)]
        characters_all   == Chain([i \in 1..Len(captions) |->
                                      Tokens(cleaned_captions[i])])
        specials         == [i \in 1..Len(cleaned_captions) |-> SOS_TOKEN]
                            \o [i \in 1..Len(cleaned_captions) |-> EOS_TOKEN]
        counter_chars    == IF s.use_special_tokens
                            THEN characters_all \o specials
                            ELSE characters_all
    IN  [words_list        |-> CounterKeys(counter_words),
         frequencies_words |-> CounterValues(counter_words),
         chars_list        |-> CounterKeys(counter_chars),
         frequencies_chars |-> CounterValues(counter_chars)]

(***************************************************************************)
(* Annotations, audio files and record files.                              *)
(***************************************************************************)
Settings ==
    [keep_case : BOOLEAN, remove_punctuation_words : BOOLEAN,
     remove_punctuation_chars : BOOLEAN, use_special_tokens : BOOLEAN,
     use_unique_words_per_caption : BOOLEAN]

HashSeeds == 0..MaxHashSeed

\* caption columns get_annotations_files rewrites: range(1, 6)
wrapped_columns == 5

\* '<SOS> {} <EOS>'.format(caption)
WithSpecials(caption) ==
    <<"<", "S", "O", "S", ">", " ">> \o caption \o <<" ", "<", "E", "O", "S", ">">>

\* one annotation entry as get_annotations_files returns it
get_annotations_files(csv_entry, s) ==
    [csv_entry EXCEPT !.captions =
        [k \in 1..Len(csv_entry.captions) |->
            IF k <= wrapped_columns
            THEN LET cleaned == clean_sentence(csv_entry.captions[k], TRUE, FALSE, FALSE)
                 IN  IF s.use_special_tokens THEN WithSpecials(cleaned) ELSE cleaned
            ELSE csv_entry.captions[k]]]

\* the captions of the remaining columns and entries of the annotation file
OtherCaptions == <<<<"a">>, <<"A">>, <<"a", ".">>>>

Filler(n) == OtherCaptions[(n % Len(OtherCaptions)) + 1]

\* the annotation files read: the first caption of the first entry is free
AnnotationFiles ==
    {<<[file_name |-> "x.wav",
        captions  |-> [k \in 1..nb_captions |-> IF k = 1 THEN c ELSE Filler(k - 2)]],
       [file_name |-> "y.wav",
        captions  |-> [k \in 1..nb_captions |-> Filler(nb_captions - 2 + k)]]>> :
        c \in CaptionsUpTo(MaxCapLen)}

\* load_audio_file: the samples of the audio files of the split
AudioFiles == [f \in {"x.wav", "y.wav"} |-> IF f = "x.wav" THEN <<1, 2>> ELSE <<3>>]

\* pathlib.Path(file_name).stem
Stem(file_name) == IF file_name = "x.wav" THEN "x" ELSE "y"

\* settings_output['file_name_template'].format(audio_file_name=.., caption_index=..)
file_name_template(audio_file_name, caption_index) ==
    <<audio_file_name, caption_index>>

\* str(data_file).split('file_')[-1].split('.wav_')[0]
f_stem(data_file) == Stem(data_file[1])

EmptyDir == [p \in {} |-> p]

\* a file that exists is kept and the object saved beside it
dump_numpy_object_beside(dir, file_name, np_obj) ==
    LET target == IF file_name \in DOMAIN dir
                  THEN Append(file_name, "new") ELSE file_name
    IN  [p \in DOMAIN dir \cup {target} |-> IF p = target THEN np_obj ELSE dir[p]]

\* np.save(file_name, np_obj): the file is created or overwritten (the
\* template ends in '.npy', so the name is used as it is)
dump_numpy_object(dir, file_name, np_obj) ==
    [p \in DOMAIN dir \cup {file_name} |-> IF p = file_name THEN np_obj ELSE dir[p]]

get_all_captions(csv_contents) ==
    Chain([i \in 1..Len(csv_contents) |-> csv_contents[i].captions])

(***************************************************************************)
(* State.                                                                  *)
(***************************************************************************)
VARIABLES
    settings,           \* settings_ann
    hash_seed,          \* string hashing of the running process
    csv_split,          \* the annotation entries of the split
    nb_development,     \* leading entries whose captions build the vocabulary
    words_list, frequencies_words, chars_list, frequencies_chars,
                        \* the four persisted artifacts
    first_lists,        \* what an earlier invocation of the builder persisted
    dir_audio,          \* audio file name -> samples
    dir_data,           \* record file name -> record
    first_run,          \* the record files an earlier run left
    pc,                 \* where the pipeline is
    item,               \* position of do_sub_function in its items
    caption_ind,        \* position of create_split_data_sub in its captions
    error,              \* the exception that ended the stage, or "none"
    run,                \* materialisation runs started
    corrupted,          \* the record file damaged after it was written
    template_ext,       \* extension of settings_output['file_name_template']
    clips,              \* audio file names of the entries whose names are studied
    records,            \* path saved -> the (audio file name, caption index) in it
    writes,             \* every save made: audio file name, caption index, path
    nb_workers,         \* nb_workers of do_sub_function
    tasks,              \* item of do_sub_function -> state of sub_f on it
    progress,           \* item -> captions its running task has handled
    pool,               \* the multiprocessing.Pool of do_sub_function
    started,            \* items in the order sub_f was started on them
    pickles,            \* the four pickle files create_dataset has written
    dir_evaluation,     \* record file name -> record, evaluation split
    sentence,           \* the sentence given to clean_sentence
    clean_args,         \* keep_case, remove_punctuation, remove_specials
    cleaned,            \* the results of clean_sentence, applied again to its result
    settings_features,  \* keep_raw_audio_data and the output directories
    settings_data,      \* the directories of settings_data['output_files']
    files,              \* <<directory, file name>> -> the object saved there
    data_files,         \* what the data stage left, as extract_features met it
    todo                \* the data files extract_features has yet to handle

vars == <<settings, hash_seed, csv_split, nb_development, words_list,
          frequencies_words, chars_list, frequencies_chars, first_lists,
          dir_audio, dir_data, first_run, pc, item, caption_ind, error, run,
          corrupted, template_ext, clips, records, writes, nb_workers, tasks,
          progress, pool, started, pickles, dir_evaluation, sentence,
          clean_args, cleaned, settings_features, settings_data, files,
          data_files, todo>>

naming_vars == <<template_ext, clips, records, writes>>
pool_vars   == <<nb_workers, tasks, progress, pool, started>>
dataset_vars == <<pickles, dir_evaluation>>
clean_vars  == <<sentence, clean_args, cleaned>>
features_vars == <<settings_features, settings_data, files, data_files, todo>>
other_vars  == <<clean_vars, features_vars>>

inputs == <<settings, csv_split, nb_development, dir_audio>>
lists  == <<words_list, frequencies_words, chars_list, frequencies_chars>>

NotCorrupted == [path |-> <<>>, kind |-> "none"]

NoLists == [words_list |-> <<>>, frequencies_words |-> <<>>,
            chars_list |-> <<>>, frequencies_chars |-> <<>>]

\* no name is studied: the template is the one ending in '.npy'
NamingIdle ==
    /\ template_ext = <<".", "n", "p", "y">>
    /\ clips = <<>>
    /\ records = <<>>
    /\ writes = {}

\* do_sub_function with nb_workers <= 1 and nothing started
PoolIdle ==
    /\ nb_workers = 1
    /\ tasks = <<>>
    /\ progress = <<>>
    /\ pool = "none"
    /\ started = <<>>

\* create_dataset has written nothing
DatasetIdle ==
    /\ pickles = NoLists
    /\ dir_evaluation = EmptyDir

\* clean_sentence is not studied on its own
CleanIdle ==
    /\ sentence = <<>>
    /\ clean_args = [keep_case |-> FALSE, remove_punctuation |-> TRUE,
                     remove_specials |-> TRUE]
    /\ cleaned = <<>>

\* extract_features is not run: the output directories are apart from the
\* data directories and hold nothing
FeaturesIdle ==
    /\ settings_features = [keep_raw_audio_data |-> FALSE,
                            dir_output |-> <<"features">>,
                            dir_development |-> <<"development">>,
                            dir_evaluation |-> <<"evaluation">>]
    /\ settings_data = [dir_output |-> <<"data">>,
                        dir_data_development |-> <<"development">>,
                        dir_data_evaluation |-> <<"evaluation">>]
    /\ files = EmptyDir
    /\ data_files = EmptyDir
    /\ todo = {}

OthersIdle == CleanIdle /\ FeaturesIdle

Init ==
    /\ settings \in Settings
    /\ hash_seed \in IF settings.use_unique_words_per_caption THEN HashSeeds ELSE {0}
    /\ \E csv \in AnnotationFiles :
          csv_split = [i \in 1..Len(csv) |-> get_annotations_files(csv[i], settings)]
    /\ nb_development \in 1..2
    /\ words_list = <<>> /\ frequencies_words = <<>>
    /\ chars_list = <<>> /\ frequencies_chars = <<>>
    /\ first_lists = NoLists
    /\ dir_audio = AudioFiles
    /\ dir_data = EmptyDir
    /\ first_run = EmptyDir
    /\ pc = "start"
    /\ item = 1
    /\ caption_ind = 0
    /\ error = "none"
    /\ run = 1
    /\ corrupted = NotCorrupted
    /\ NamingIdle
    /\ PoolIdle
    /\ DatasetIdle
    /\ OthersIdle

(***************************************************************************)
(* Vocabulary construction.                                                *)
(***************************************************************************)
captions_development == get_all_captions(SubSeq(csv_split, 1, nb_development))

CreateListsAndFrequencies ==
    /\ pc = "start"
    /\ \E made \in {create_lists_and_frequencies(captions_development, settings,
                                                  hash_seed)} :
           /\ words_list' = made.words_list
           /\ frequencies_words' = made.frequencies_words
           /\ chars_list' = made.chars_list
           /\ frequencies_chars' = made.frequencies_chars
    /\ pc' = "create"
    /\ UNCHANGED <<inputs, naming_vars, pool_vars, dataset_vars, other_vars, hash_seed, first_lists, dir_data, first_run, item,
                   caption_ind, error, run, corrupted>>

(***************************************************************************)
(* Materialisation: create_split_data runs create_split_data_sub on the    *)
(* entries in order (do_sub_function with nb_workers <= 1); one step       *)
(* handles one caption of the current entry.                               *)
(***************************************************************************)
AllIn(list, tokens) == \A i \in 1..Len(tokens) : InList(list, tokens[i])

\* the tokens the list has, the others left out
RECURSIVE Known(_, _)
Known(list, tokens) ==
    IF tokens = <<>> THEN <<>>
    ELSE IF InList(list, Head(tokens))
         THEN <<Head(tokens)>> \o Known(list, Tail(tokens))
         ELSE Known(list, Tail(tokens))

\* the indices of the tokens the list has; a token it does not have is skipped
indices_skipping(list, tokens) ==
    [raised |-> FALSE,
     value  |-> [i \in 1..Len(Known(list, tokens)) |->
                    list_index(list, Known(list, tokens)[i])]]

\* [list.index(t) for t in tokens]: list.index raises ValueError on a token
\* the list does not have
indices(list, tokens) ==
    IF AllIn(list, tokens)
    THEN [raised |-> FALSE,
          value  |-> [i \in 1..Len(tokens) |-> list_index(list, tokens[i])]]
    ELSE [raised |-> TRUE, value |-> <<>>]

np_rec_array(f_name_audio, audio, caption, c_ind, indices_words, indices_chars) ==
    [file_name   |-> f_name_audio,
     audio_data  |-> audio,
     caption     |-> caption,
     caption_ind |-> c_ind,
     words_ind   |-> indices_words,
     chars_ind   |-> indices_chars]

\* a task that adds the words of a caption to the word list
CreateSplitDataSubLearning ==
    /\ pc = "create"
    /\ \E i \in 1..Len(csv_split) : \E k \in 1..nb_captions :
          words_list' = CounterKeys(words_list \o words_caption(
                                        csv_split[i].captions[k], settings, hash_seed))
    /\ pc' = "created"
    /\ UNCHANGED <<inputs, naming_vars, pool_vars, dataset_vars, other_vars, hash_seed,
                   frequencies_words, chars_list, frequencies_chars, first_lists,
                   dir_data, first_run, item, caption_ind, error, run, corrupted>>

CreateSplitDataSub ==
    /\ pc = "create"
    /\ LET csv_entry     == csv_split[item]
           f_name_audio  == csv_entry.file_name
           caption       == csv_entry.captions[caption_ind + 1]
           indices_words == indices(words_list,
                                    words_caption(caption, settings, hash_seed))
           indices_chars == indices(chars_list, chars_caption(caption, settings))
       IN  IF ~indices_words.raised /\ ~indices_chars.raised
           THEN /\ dir_data' = dump_numpy_object(
                       dir_data, file_name_template(f_name_audio, caption_ind),
                       np_rec_array(f_name_audio, dir_audio[f_name_audio], caption,
                                    caption_ind, indices_words.value,
                                    indices_chars.value))
                /\ IF caption_ind + 1 < nb_captions
                   THEN /\ caption_ind' = caption_ind + 1
                        /\ UNCHANGED <<item, pc>>
                   ELSE /\ caption_ind' = 0
                        /\ IF item < Len(csv_split)
                           THEN item' = item + 1 /\ pc' = pc
                           ELSE item' = item /\ pc' = "created"
                /\ error' = error
           ELSE /\ error' = "ValueError"
                /\ pc' = "failed"
                /\ UNCHANGED <<dir_data, item, caption_ind>>
    /\ UNCHANGED <<inputs, naming_vars, pool_vars, dataset_vars, other_vars, hash_seed, lists, first_lists, first_run, run, corrupted>>

\* the same split is materialised again by a new process
Rerun ==
    /\ pc \in {"created", "failed"}
    /\ run = 1
    /\ run' = 2
    /\ first_run' = dir_data
    /\ hash_seed' \in HashSeeds
    /\ pc' = "create"
    /\ item' = 1
    /\ caption_ind' = 0
    /\ error' = "none"
    /\ UNCHANGED <<inputs, naming_vars, pool_vars, dataset_vars, other_vars, lists, first_lists, dir_data, corrupted>>

(***************************************************************************)
(* Verification: check_data_for_split runs check_data_for_split_sub on the *)
(* entries in order; one step handles one entry and reads only.            *)
(***************************************************************************)
decode(list, inds) == [i \in 1..Len(inds) |-> list_getitem(list, inds[i])]

\* the comparison of the samples without the comparison of the lengths
audio_error_samples_only(audio_rec, audio_original) ==
    IF Len(audio_rec) < Len(audio_original)
    THEN "IndexError"
    ELSE IF \E i \in 1..Len(audio_original) : audio_original[i] # audio_rec[i]
    THEN "AudioData"
    ELSE "none"

\* the comparison of the stored audio with the audio file
audio_error(audio_rec, audio_original) ==
    IF Len(audio_rec) # Len(audio_original)
    THEN "AudioLength"
    ELSE IF \E i \in 1..Len(audio_original) : audio_original[i] # audio_rec[i]
    THEN "AudioData"
    ELSE "none"

\* a verifier that takes caption_ind itself for the number of the caption
\* column
check_record_column_as_stored(data_array, csv_entry, w_list, c_list, s, audio_original) ==
    LET c_index      == data_array.caption_ind
        specials_off == ~s.use_special_tokens
        stored       == data_array.caption
    IN  IF audio_error(data_array.audio_data, audio_original) # "none"
        THEN audio_error(data_array.audio_data, audio_original)
        ELSE IF c_index \notin 1..Len(csv_entry.captions)
        THEN "KeyError"
        ELSE IF clean_sentence(csv_entry.captions[c_index], TRUE, FALSE, specials_off)
                # clean_sentence(stored, TRUE, FALSE, specials_off)
        THEN "Caption"
        ELSE "none"

\* what check_data_for_split_sub raises on one matching record file
check_record(data_array, csv_entry, w_list, c_list, s, audio_original) ==
    LET c_index      == data_array.caption_ind
        specials_off == ~s.use_special_tokens
        stored       == data_array.caption
    IN  IF audio_error(data_array.audio_data, audio_original) # "none"
        THEN audio_error(data_array.audio_data, audio_original)
        ELSE IF c_index + 1 \notin 1..Len(csv_entry.captions)
        THEN "KeyError"
        ELSE IF clean_sentence(csv_entry.captions[c_index + 1], TRUE, FALSE, specials_off)
                # clean_sentence(stored, TRUE, FALSE, specials_off)
        THEN "Caption"
        ELSE IF \E i \in 1..Len(data_array.words_ind) :
                    ~ValidIndex(w_list, data_array.words_ind[i])
        THEN "IndexError"
        ELSE IF clean_sentence(stored, s.keep_case, s.remove_punctuation_words,
                               specials_off)
                # Join(<<" ">>, decode(w_list, data_array.words_ind))
        THEN "WordsIndices"
        ELSE IF \E i \in 1..Len(data_array.chars_ind) :
                    ~ValidIndex(c_list, data_array.chars_ind[i])
        THEN "IndexError"
        ELSE IF clean_sentence(stored, s.keep_case, s.remove_punctuation_chars,
                               specials_off)
                # Chain(decode(c_list, data_array.chars_ind))
        THEN "CharsIndices"
        ELSE "none"

\* the record files of the directory whose parsed stem is the entry's
matching_files(dir, csv_entry) ==
    {p \in DOMAIN dir : f_stem(p) = Stem(csv_entry.file_name)}

record_error(dir, p, csv_entry, w_list, c_list, s, audio) ==
    check_record(dir[p], csv_entry, w_list, c_list, s, audio[csv_entry.file_name])

\* the records are looked for before the audio file is
check_data_for_split_sub_records_first(csv_entry, dir, audio, w_list, c_list, s) ==
    IF matching_files(dir, csv_entry) = {} THEN {"NoData"}
    ELSE IF csv_entry.file_name \notin DOMAIN audio THEN {"AudioMissing"}
    ELSE LET raised == {record_error(dir, p, csv_entry, w_list, c_list, s, audio) :
                            p \in matching_files(dir, csv_entry)} \ {"none"}
         IN  IF raised # {} THEN raised ELSE {"none"}

\* a verifier without the audio_has_data_files flag
check_data_for_split_sub_unflagged(csv_entry, dir, audio, w_list, c_list, s) ==
    IF csv_entry.file_name \notin DOMAIN audio
    THEN {"AudioMissing"}
    ELSE LET raised == {record_error(dir, p, csv_entry, w_list, c_list, s, audio) :
                            p \in matching_files(dir, csv_entry)} \ {"none"}
         IN  IF raised # {} THEN raised ELSE {"none"}

\* what check_data_for_split_sub can raise on an entry: iterdir yields the
\* files in any order, and the first failing one ends the task
check_data_for_split_sub(csv_entry, dir, audio, w_list, c_list, s) ==
    IF csv_entry.file_name \notin DOMAIN audio
    THEN {"AudioMissing"}
    ELSE LET found  == matching_files(dir, csv_entry)
             raised == {record_error(dir, p, csv_entry, w_list, c_list, s, audio) :
                            p \in found} \ {"none"}
         IN  IF raised # {} THEN raised
             ELSE IF found = {} THEN {"NoData"} ELSE {"none"}

CheckDataForSplitSub ==
    /\ pc \in {"created", "check"}
    /\ LET i == IF pc = "created" THEN 1 ELSE item
       IN  /\ error' \in check_data_for_split_sub(csv_split[i], dir_data, dir_audio,
                                                  words_list, chars_list, settings)
           /\ IF error' # "none"
              THEN pc' = "check_failed" /\ item' = i
              ELSE IF i < Len(csv_split)
                   THEN pc' = "check" /\ item' = i + 1
                   ELSE pc' = "checked" /\ item' = i
    /\ UNCHANGED <<inputs, naming_vars, pool_vars, dataset_vars, other_vars, hash_seed, lists, first_lists, dir_data, first_run,
                   caption_ind, run, corrupted>>

(***************************************************************************)
(* A second invocation of the vocabulary builder, by a new process, on the *)
(* same captions and settings.                                             *)
(***************************************************************************)
persisted == [words_list |-> words_list, frequencies_words |-> frequencies_words,
              chars_list |-> chars_list, frequencies_chars |-> frequencies_chars]

CreateListsAndFrequenciesAgain ==
    /\ pc = "create"
    /\ run = 1
    /\ first_lists' = persisted
    /\ hash_seed' \in HashSeeds
    /\ \E made \in {create_lists_and_frequencies(captions_development, settings,
                                                  hash_seed')} :
           /\ words_list' = made.words_list
           /\ frequencies_words' = made.frequencies_words
           /\ chars_list' = made.chars_list
           /\ frequencies_chars' = made.frequencies_chars
    /\ pc' = "rebuilt"
    /\ run' = 2
    /\ UNCHANGED <<inputs, naming_vars, pool_vars, dataset_vars, other_vars, dir_data, first_run, item, caption_ind, error, corrupted>>

(***************************************************************************)
(* Damage to one record file that verified cleanly, after it was written.  *)
(***************************************************************************)
SampleValues == {0, 1, 2, 3}

EndsWith(s, pat) ==
    Len(pat) <= Len(s) /\ SubSeq(s, Len(s) - Len(pat) + 1, Len(s)) = pat

\* other texts the stored caption may be turned into
CaptionMutations(c) ==
    ({SOS_UPPER \o c, SOS_LOWER \o c, c \o EOS_UPPER, c \o EOS_LOWER}
     \cup {Append(c, x) : x \in Alphabet}
     \cup {Remove(c, i) : i \in 1..Len(c)}
     \cup {SubSeq(c, Len(SOS_UPPER) + 1, Len(c)) : x \in {1} \cap
               {IF StartsWith(c, SOS_UPPER) THEN 1 ELSE 0}}
     \cup {SubSeq(c, 1, Len(c) - Len(EOS_UPPER)) : x \in {1} \cap
               {IF EndsWith(c, EOS_UPPER) THEN 1 ELSE 0}})
    \ {c}

\* other values one element of an index array over a list may be turned into
IndexMutations(list, old) == ((-Len(list) - 1)..Len(list)) \ {old}

AudioMutations(audio) ==
    {[audio EXCEPT ![i] = v] : i \in 1..Len(audio), v \in SampleValues} \ {audio}

LengthMutations(audio) ==
    {Append(audio, v) : v \in SampleValues}
    \cup {SubSeq(audio, 1, Len(audio) - 1) : x \in {1} \cap
              {IF audio # <<>> THEN 1 ELSE 0}}

entry_of(p) == CHOOSE i \in 1..Len(csv_split) : csv_split[i].file_name = p[1]

verifies_cleanly(p) ==
    record_error(dir_data, p, csv_split[entry_of(p)], words_list, chars_list,
                 settings, dir_audio) = "none"

Corrupt ==
    /\ pc = "created"
    /\ corrupted = NotCorrupted
    /\ \E p \in DOMAIN dir_data :
          /\ verifies_cleanly(p)
          /\ LET r == dir_data[p]
             IN  \/ \E a \in AudioMutations(r.audio_data) :
                       /\ dir_data' = [dir_data EXCEPT ![p].audio_data = a]
                       /\ corrupted' = [path |-> p, kind |-> "sample"]
                 \/ \E a \in LengthMutations(r.audio_data) :
                       /\ dir_data' = [dir_data EXCEPT ![p].audio_data = a]
                       /\ corrupted' = [path |-> p, kind |-> "length"]
                 \/ \E c \in CaptionMutations(r.caption) :
                       /\ dir_data' = [dir_data EXCEPT ![p].caption = c]
                       /\ corrupted' = [path |-> p, kind |-> "caption"]
                 \/ \E i \in 1..Len(r.words_ind) :
                       \E v \in IndexMutations(words_list, r.words_ind[i]) :
                          /\ dir_data' = [dir_data EXCEPT ![p].words_ind[i] = v]
                          /\ corrupted' = [path |-> p, kind |-> "words_ind"]
                 \/ \E i \in 1..Len(r.chars_ind) :
                       \E v \in IndexMutations(chars_list, r.chars_ind[i]) :
                          /\ dir_data' = [dir_data EXCEPT ![p].chars_ind[i] = v]
                          /\ corrupted' = [path |-> p, kind |-> "chars_ind"]
    /\ UNCHANGED <<inputs, naming_vars, pool_vars, dataset_vars, other_vars, hash_seed, lists, first_lists, first_run, pc, item,
                   caption_ind, error, run>>

(***************************************************************************)
(* Loss of files between materialisation and check.                        *)
(***************************************************************************)
Restrict(f, keys) == [k \in keys |-> f[k]]

\* one audio file of the split is removed
RemoveAudio ==
    /\ pc = "created"
    /\ dir_audio = AudioFiles
    /\ \E f \in DOMAIN dir_audio :
          dir_audio' = Restrict(dir_audio, DOMAIN dir_audio \ {f})
    /\ UNCHANGED <<settings, csv_split, nb_development, naming_vars, pool_vars,
                   dataset_vars, other_vars, hash_seed, lists, first_lists, dir_data, first_run,
                   pc, item, caption_ind, error, run, corrupted>>

\* the record files of one audio file are removed
RemoveRecords ==
    /\ pc = "created"
    /\ corrupted = NotCorrupted
    /\ \E f \in DOMAIN AudioFiles :
          /\ dir_data' = Restrict(dir_data, {p \in DOMAIN dir_data : p[1] # f})
          /\ dir_data' # dir_data
    /\ corrupted' = [path |-> <<>>, kind |-> "removed"]
    /\ UNCHANGED <<inputs, naming_vars, pool_vars, dataset_vars, other_vars, hash_seed, lists,
                   first_lists, first_run, pc, item, caption_ind, error, run>>

(***************************************************************************)
(* The pipeline: vocabulary, materialisation, check.                       *)
(***************************************************************************)
Next ==
    \/ CreateListsAndFrequencies
    \/ CreateSplitDataSub
    \/ CheckDataForSplitSub

Spec == Init /\ [][Next]_vars

\* vocabulary, materialisation, and the materialisation once more
NextRerun ==
    \/ CreateListsAndFrequencies
    \/ CreateSplitDataSub
    \/ Rerun

SpecRerun == Init /\ [][NextRerun]_vars

\* two invocations of the vocabulary builder
NextVocab ==
    \/ CreateListsAndFrequencies
    \/ CreateListsAndFrequenciesAgain

SpecVocab == Init /\ [][NextVocab]_vars

\* vocabulary, materialisation, damage to one record file, check
NextCorrupt ==
    \/ CreateListsAndFrequencies
    \/ CreateSplitDataSub
    \/ Corrupt
    \/ CheckDataForSplitSub

\* the check reads no set, so one hash seed stands for all
InitCorrupt == Init /\ hash_seed = 0

\* vocabulary, materialisation, loss of audio files and record files, check
NextMissing ==
    \/ CreateListsAndFrequencies
    \/ CreateSplitDataSub
    \/ RemoveAudio
    \/ RemoveRecords
    \/ CheckDataForSplitSub

SpecMissing == InitCorrupt /\ [][NextMissing]_vars

SpecCorrupt == InitCorrupt /\ [][NextCorrupt]_vars

(***************************************************************************)
(* Record file names: the name create_split_data_sub formats, the path     *)
(* dump_numpy_object saves to, and the stem check_data_for_split_sub       *)
(* parses back from the path.                                              *)
(***************************************************************************)
\* most pieces a studied audio file name is made of
MaxNamePieces == 3

\* pieces of audio file names
NamePieces == {<<"a">>, <<"b">>, <<".", "w", "a", "v">>, <<"f", "i", "l", "e", "_">>}

RECURSIVE NamesUpTo(_)
NamesUpTo(n) ==
    IF n = 0 THEN {<<>>}
    ELSE LET shorter == NamesUpTo(n - 1)
         IN  shorter \cup {s \o p : s \in shorter, p \in NamePieces}

\* the audio file names studied
ClipNames == NamesUpTo(MaxNamePieces) \ {<<>>}

A_WAV == <<"a", ".", "w", "a", "v">>

NPY == <<".", "n", "p", "y">>

\* the file name template is 'clotho_file_{audio_file_name}_{caption_index}',
\* with the extension '.npy' or with none
TemplateExtensions == {NPY, <<>>}

CLOTHO_FILE == <<"c", "l", "o", "t", "h", "o", "_", "f", "i", "l", "e", "_">>

DigitChars == <<"0", "1", "2", "3", "4", "5", "6", "7", "8", "9">>

\* str(i) of a natural number
RECURSIVE str_of_int(_)
str_of_int(i) ==
    IF i < 10 THEN <<DigitChars[i + 1]>>
    ELSE str_of_int(i \div 10) \o <<DigitChars[(i % 10) + 1]>>

\* settings_output['file_name_template'].format(audio_file_name=..,
\* caption_index=..) for the template of extension ext
format_file_name(ext, audio_file_name, caption_index) ==
    CLOTHO_FILE \o audio_file_name \o <<"_">> \o str_of_int(caption_index) \o ext

\* str.rfind('.') as a position from 1, 0 when there is no dot
rfind_dot(s) ==
    IF \E i \in 1..Len(s) : s[i] = "."
    THEN CHOOSE i \in 1..Len(s) : s[i] = "." /\ \A j \in (i + 1)..Len(s) : s[j] # "."
    ELSE 0

\* os.path.splitext of a name without directories: the extension starts at
\* the last dot, unless only dots come before it
splitext(p) ==
    LET dot == rfind_dot(p)
    IN  IF dot > 0 /\ \E i \in 1..(dot - 1) : p[i] # "."
        THEN <<SubSeq(p, 1, dot - 1), SubSeq(p, dot, Len(p))>>
        ELSE <<p, <<>>>>

\* the path dump_numpy_object saves to (ext = '.npy', replace_ext = True)
saved_path(file_name) ==
    IF splitext(file_name)[2] # NPY \/ splitext(file_name)[2] = <<>>
    THEN splitext(file_name)[1] \o NPY
    ELSE file_name

\* pathlib.Path(name).stem: the name without its last suffix; a name has a
\* suffix when its last dot is neither its first nor its last character
path_stem(name) ==
    LET dot == rfind_dot(name)
    IN  IF 1 < dot /\ dot < Len(name) THEN SubSeq(name, 1, dot - 1) ELSE name

\* the positions of s at which pat occurs
occurrences(s, pat) ==
    {i \in 1..(Len(s) - Len(pat) + 1) : SubSeq(s, i, i + Len(pat) - 1) = pat}

Max(S) == CHOOSE x \in S : \A y \in S : y <= x
Min(S) == CHOOSE x \in S : \A y \in S : x <= y

\* s.split(pat)[-1]: what follows the last occurrence of pat, s without one
split_last(s, pat) ==
    IF occurrences(s, pat) = {} THEN s
    ELSE SubSeq(s, Max(occurrences(s, pat)) + Len(pat), Len(s))

\* s.split(pat)[0]: what precedes the first occurrence of pat, s without one
split_first(s, pat) ==
    IF occurrences(s, pat) = {} THEN s
    ELSE SubSeq(s, 1, Min(occurrences(s, pat)) - 1)

FILE_ == <<"f", "i", "l", "e", "_">>
WAV_  == <<".", "w", "a", "v", "_">>

\* str(data_file).split('file_')[-1].split('.wav_')[0]
parsed_stem(data_file) == split_first(split_last(data_file, FILE_), WAV_)

\* the record files whose parsed stem is the stem of the entry's audio file
matching_records(dir, audio_file_name) ==
    {p \in DOMAIN dir : parsed_stem(p) = path_stem(audio_file_name)}

\* the record files written for the entry's audio file
records_of(dir, audio_file_name) ==
    {p \in DOMAIN dir : dir[p].file_name = audio_file_name}

\* what check_data_for_split_sub can raise on an entry whose audio file
\* exists: a matching record written for this very audio file passes, one
\* written for another audio file passes or not, depending on its contents
match_errors(dir, audio_file_name) ==
    LET found == matching_records(dir, audio_file_name)
    IN  IF found = {} THEN {"NoData"}
        ELSE IF found \subseteq records_of(dir, audio_file_name) THEN {"none"}
        ELSE {"none", "Mismatch"}

\* settings_ann with every flag off
PlainSettings ==
    [keep_case |-> FALSE, remove_punctuation_words |-> FALSE,
     remove_punctuation_chars |-> FALSE, use_special_tokens |-> FALSE,
     use_unique_words_per_caption |-> FALSE]

\* the entries are <<an audio file name, 'a.wav'>>; nothing is written yet
InitNames ==
    /\ settings = PlainSettings
    /\ hash_seed = 0
    /\ csv_split = <<>>
    /\ nb_development = 0
    /\ words_list = <<>> /\ frequencies_words = <<>>
    /\ chars_list = <<>> /\ frequencies_chars = <<>>
    /\ first_lists = NoLists
    /\ dir_audio = AudioFiles
    /\ dir_data = EmptyDir
    /\ first_run = EmptyDir
    /\ pc = "save"
    /\ item = 1
    /\ caption_ind = 0
    /\ error = "none"
    /\ run = 1
    /\ corrupted = NotCorrupted
    /\ template_ext \in TemplateExtensions
    /\ clips \in {<<name, A_WAV>> : name \in ClipNames}
    /\ records = <<>>
    /\ writes = {}
    /\ PoolIdle
    /\ DatasetIdle
    /\ OthersIdle

pipeline_vars == <<settings, hash_seed, csv_split, nb_development, lists,
                   first_lists, dir_audio, dir_data, first_run, run, corrupted,
                   dataset_vars, other_vars>>

\* create_split_data_sub names and saves the record of one caption of the
\* current entry
SaveRecord ==
    /\ pc = "save"
    /\ LET file_name == format_file_name(template_ext, clips[item], caption_ind)
           path      == saved_path(file_name)
       IN  /\ records' = [p \in DOMAIN records \cup {path} |->
                             IF p = path
                             THEN [file_name |-> clips[item],
                                   caption_ind |-> caption_ind]
                             ELSE records[p]]
           /\ writes' = writes \cup {[file_name |-> clips[item],
                                      caption_ind |-> caption_ind,
                                      path |-> path]}
    /\ IF caption_ind + 1 < nb_captions
       THEN /\ caption_ind' = caption_ind + 1
            /\ UNCHANGED <<item, pc>>
       ELSE /\ caption_ind' = 0
            /\ IF item < Len(clips)
               THEN item' = item + 1 /\ pc' = pc
               ELSE item' = item /\ pc' = "saved"
    /\ UNCHANGED <<pipeline_vars, pool_vars, template_ext, clips, error>>

\* check_data_for_split_sub looks for the records of the next entry
MatchRecords ==
    /\ pc \in {"saved", "match"}
    /\ LET i == IF pc = "saved" THEN 1 ELSE item + 1
       IN  /\ error' \in match_errors(records, clips[i])
           /\ item' = i
           /\ pc' = IF error' # "none" THEN "match_failed"
                    ELSE IF i < Len(clips) THEN "match" ELSE "matched"
    /\ UNCHANGED <<pipeline_vars, pool_vars, naming_vars, caption_ind>>

NextNames ==
    \/ SaveRecord
    \/ MatchRecords

SpecNames == InitNames /\ [][NextNames]_vars

(***************************************************************************)
(* do_sub_function: create_split_data hands create_split_data_sub and the  *)
(* entries to it.  With nb_workers > 1 a multiprocessing.Pool runs the     *)
(* tasks (Pool.map of CPython 3.8 and later: the result is ready once      *)
(* every chunk has been handled); otherwise the caller runs them in a      *)
(* loop.  One step of a task handles one caption.                          *)
(***************************************************************************)
\* most entries handed to do_sub_function
MaxItems == 3

\* largest nb_workers
MaxWorkers == 2

\* the entries a split is made of; two of them name the same audio file
PoolEntries ==
    {[file_name |-> "x.wav", captions |-> <<<<"a">>, <<"a">>>>],
     [file_name |-> "x.wav", captions |-> <<<<"a", " ", "a">>, <<"a">>>>],
     [file_name |-> "y.wav", captions |-> <<<<"a">>, <<"a", ".">>>>]}

RECURSIVE EntryLists(_)
EntryLists(n) ==
    IF n = 0 THEN {<<>>}
    ELSE LET shorter == EntryLists(n - 1)
         IN  shorter \cup {Append(l, e) : l \in shorter, e \in PoolEntries}

\* a captions loop that removes the record files of its entry when a caption
\* fails
create_split_data_caption_cleaning(csv_entry, c_ind, dir, audio, w_list, c_list, s, seed) ==
    LET f_name_audio  == csv_entry.file_name
        caption       == csv_entry.captions[c_ind + 1]
        indices_words == indices(w_list, words_caption(caption, s, seed))
        indices_chars == indices(c_list, chars_caption(caption, s))
    IN  IF ~indices_words.raised /\ ~indices_chars.raised
        THEN [raised |-> FALSE,
              dir    |-> dump_numpy_object(
                             dir, file_name_template(f_name_audio, c_ind),
                             np_rec_array(f_name_audio, audio[f_name_audio], caption,
                                          c_ind, indices_words.value,
                                          indices_chars.value))]
        ELSE [raised |-> TRUE,
              dir    |-> [p \in {q \in DOMAIN dir : q[1] # f_name_audio} |-> dir[p]]]

\* the body of the captions loop of create_split_data_sub for one caption:
\* the directory afterwards, or the exception raised
create_split_data_caption(csv_entry, c_ind, dir, audio, w_list, c_list, s, seed) ==
    LET f_name_audio  == csv_entry.file_name
        caption       == csv_entry.captions[c_ind + 1]
        indices_words == indices(w_list, words_caption(caption, s, seed))
        indices_chars == indices(c_list, chars_caption(caption, s))
    IN  IF ~indices_words.raised /\ ~indices_chars.raised
        THEN [raised |-> FALSE,
              dir    |-> dump_numpy_object(
                             dir, file_name_template(f_name_audio, c_ind),
                             np_rec_array(f_name_audio, audio[f_name_audio], caption,
                                          c_ind, indices_words.value,
                                          indices_chars.value))]
        ELSE [raised |-> TRUE, dir |-> dir]

\* [sub_f(i) for i in it] from the caption c_ind of the entry i on: the
\* directory when the loop ends or an exception leaves it
RECURSIVE sequential_run(_, _, _, _, _, _, _, _, _)
sequential_run(csv, i, c_ind, dir, audio, w_list, c_list, s, seed) ==
    IF i > Len(csv) THEN dir
    ELSE LET step == create_split_data_caption(csv[i], c_ind, dir, audio, w_list,
                                               c_list, s, seed)
         IN  IF step.raised THEN dir
             ELSE IF c_ind + 1 < nb_captions
                  THEN sequential_run(csv, i, c_ind + 1, step.dir, audio, w_list,
                                      c_list, s, seed)
                  ELSE sequential_run(csv, i + 1, 0, step.dir, audio, w_list,
                                      c_list, s, seed)

\* if nb_workers > 1
uses_pool_from_one(n) == n >= 1

uses_pool(n) == n > 1

\* Pool.map: chunksize, extra = divmod(len(iterable), len(self._pool) * 4);
\* if extra: chunksize += 1
chunksize(n, workers) ==
    IF n % (workers * 4) = 0 THEN n \div (workers * 4) ELSE n \div (workers * 4) + 1

chunk_of(i, n, workers) == (i - 1) \div chunksize(n, workers)

Settled == {"done", "raised", "skipped"}

running(t) == {i \in 1..Len(t) : t[i] = "running"}

\* the item a free worker of the pool takes next: the chunks leave the task
\* queue in order, and a chunk is one task, its items handled in order
next_in_pool(t, workers) ==
    {i \in 1..Len(t) :
        /\ t[i] = "pending"
        /\ \A j \in 1..(i - 1) : t[j] # "pending"
        /\ \A j \in 1..(i - 1) :
              chunk_of(j, Len(t), workers) = chunk_of(i, Len(t), workers)
                  => t[j] = "done"}

\* the item the loop of the caller handles next
next_in_loop(t) ==
    {i \in 1..Len(t) : t[i] = "pending" /\ \A j \in 1..(i - 1) : t[j] = "done"}

\* MapResult is ready as soon as one task is
map_ready_on_first(t) == \E i \in 1..Len(t) : t[i] \in Settled

\* MapResult is ready: no chunk is left to handle
map_ready(t) == \A i \in 1..Len(t) : t[i] \in Settled

\* create_split_data called: the vocabulary is the one of the first
\* nb_development entries
InitPool ==
    /\ settings = PlainSettings
    /\ hash_seed = 0
    /\ csv_split \in EntryLists(MaxItems) \ {<<>>}
    /\ nb_development \in {1, Len(csv_split)}
    /\ \E made \in {create_lists_and_frequencies(captions_development, settings,
                                                  hash_seed)} :
           /\ words_list = made.words_list
           /\ frequencies_words = made.frequencies_words
           /\ chars_list = made.chars_list
           /\ frequencies_chars = made.frequencies_chars
    /\ first_lists = NoLists
    /\ dir_audio = AudioFiles
    /\ dir_data = EmptyDir
    /\ first_run = EmptyDir
    /\ pc = "call"
    /\ item = 1
    /\ caption_ind = 0
    /\ error = "none"
    /\ run = 1
    /\ corrupted = NotCorrupted
    /\ NamingIdle
    /\ nb_workers \in 0..MaxWorkers
    /\ tasks = [i \in 1..Len(csv_split) |-> "pending"]
    /\ progress = [i \in 1..Len(csv_split) |-> 0]
    /\ pool = "none"
    /\ started = <<>>
    /\ DatasetIdle
    /\ OthersIdle

pool_frame == <<inputs, naming_vars, dataset_vars, other_vars, hash_seed, lists, first_lists,
                first_run, item, caption_ind, run, corrupted, nb_workers>>

\* do_sub_function is entered: the pool is created, or the loop begun
DoSubFunction ==
    /\ pc = "call"
    /\ IF uses_pool(nb_workers)
       THEN pool' = "open" /\ pc' = "map"
       ELSE pool' = pool /\ pc' = "loop"
    /\ UNCHANGED <<pool_frame, dir_data, error, tasks, progress, started>>

\* sub_f is called on an item: by a free worker of the pool, or by the loop
StartTask ==
    /\ \E i \in IF pc = "map" /\ Cardinality(running(tasks)) < nb_workers
                THEN next_in_pool(tasks, nb_workers)
                ELSE IF pc = "loop" /\ running(tasks) = {}
                     THEN next_in_loop(tasks)
                     ELSE {} :
          /\ tasks' = [tasks EXCEPT ![i] = "running"]
          /\ started' = Append(started, i)
    /\ UNCHANGED <<pool_frame, dir_data, error, progress, pool, pc>>

\* the rest of the chunk of an item that raised, skipped by its worker
skip_rest(t, i, workers) ==
    [j \in 1..Len(t) |->
        IF j > i /\ chunk_of(j, Len(t), workers) = chunk_of(i, Len(t), workers)
        THEN "skipped" ELSE t[j]]

\* a running create_split_data_sub handles its next caption; an exception
\* ends the task, and in the loop it leaves do_sub_function at once
RunTask ==
    /\ pc \in {"map", "loop"}
    /\ \E i \in running(tasks) :
          \E step \in {create_split_data_caption(csv_split[i], progress[i], dir_data,
                                                 dir_audio, words_list, chars_list,
                                                 settings, hash_seed)} :
              IF step.raised
              THEN /\ dir_data' = step.dir
                   /\ progress' = progress
                   /\ IF pc = "loop"
                      THEN /\ tasks' = [tasks EXCEPT ![i] = "raised"]
                           /\ pc' = "raised"
                           /\ error' = "ValueError"
                      ELSE /\ tasks' = skip_rest([tasks EXCEPT ![i] = "raised"], i,
                                                 nb_workers)
                           /\ pc' = pc
                           /\ error' = error
              ELSE /\ dir_data' = step.dir
                   /\ progress' = [progress EXCEPT ![i] = progress[i] + 1]
                   /\ tasks' = IF progress[i] + 1 < nb_captions THEN tasks
                               ELSE [tasks EXCEPT ![i] = "done"]
                   /\ UNCHANGED <<pc, error>>
    /\ UNCHANGED <<pool_frame, pool, started>>

\* pool.map returns or raises and the with block terminates the pool; the
\* loop ends
Return ==
    /\ \/ pc = "map" /\ map_ready(tasks)
       \/ pc = "loop" /\ \A i \in 1..Len(tasks) : tasks[i] = "done"
    /\ IF \E i \in 1..Len(tasks) : tasks[i] = "raised"
       THEN pc' = "raised" /\ error' = "ValueError"
       ELSE pc' = "returned" /\ error' = error
    /\ pool' = IF pc = "map" THEN "terminated" ELSE pool
    /\ UNCHANGED <<pool_frame, dir_data, tasks, progress, started>>

NextPool ==
    \/ DoSubFunction
    \/ StartTask
    \/ RunTask
    \/ Return

SpecPool == InitPool /\ [][NextPool]_vars

\* the runs whose vocabulary is that of the first entry, over the entries
\* whose first caption is 'a'
InitPoolLive ==
    /\ InitPool
    /\ nb_development = 1
    /\ \A i \in 1..Len(csv_split) : csv_split[i].captions[1] = <<"a">>

\* the workers and the caller keep running
SpecPoolLive == InitPoolLive /\ [][NextPool]_vars /\ WF_vars(NextPool)

(***************************************************************************)
(* create_dataset of processes/dataset.py: the annotation files are read,  *)
(* the lists and frequencies built and dumped, then the development split  *)
(* and the evaluation split are written by _create_split_data.  csv_split  *)
(* holds the development entries followed by the evaluation entries.       *)
(***************************************************************************)
\* caption columns create_dataset reads for the vocabulary: range(1, 6)
development_columns == 5

\* one annotation entry as get_annotations_files of aux_functions returns it
aux_get_annotations_files(csv_entry, s) ==
    [csv_entry EXCEPT !.captions =
        [k \in 1..Len(csv_entry.captions) |->
            IF s.use_special_tokens /\ k <= wrapped_columns
            THEN WithSpecials(csv_entry.captions[k])
            ELSE csv_entry.captions[k]]]

\* the captions of the evaluation entry
EvaluationCaptions == <<<<"a", " ", "a">>, <<"A">>, <<"a", ".">>, <<"a">>, <<"A">>>>

\* the annotation files read: the development file with one entry or two,
\* the first caption of the first entry free
DatasetAnnotationFiles ==
    {<<[file_name |-> "x.wav",
        captions  |-> [k \in 1..development_columns |->
                          IF k = 1 THEN c ELSE Filler(k - 2)]],
       [file_name |-> "y.wav",
        captions  |-> EvaluationCaptions]>> :
        c \in CaptionsUpTo(MaxCapLen)}

\* every caption of every entry
process_captions_all ==
    Chain([i \in 1..Len(csv_split) |->
              SubSeq(csv_split[i].captions, 1, development_columns)])

\* captions_development of create_dataset
process_captions_development ==
    Chain([i \in 1..nb_development |->
              SubSeq(csv_split[i].captions, 1, development_columns)])

\* a builder that counts the special tokens with the blank next to them
process_create_lists_and_frequencies_blanks(captions, s, seed) ==
    LET counter_words    == get_words_counter(captions, s, seed)
        characters_all   == Chain([i \in 1..Len(captions) |->
                                      Tokens(clean_sentence(captions[i], s.keep_case,
                                                            s.remove_punctuation_words,
                                                            TRUE))])
        specials         == [i \in 1..Len(captions) |-> SOS_LOWER]
                            \o [i \in 1..Len(captions) |-> EOS_LOWER]
        counter_chars    == IF s.use_special_tokens
                            THEN characters_all \o specials
                            ELSE characters_all
    IN  [words_list        |-> CounterKeys(counter_words),
         frequencies_words |-> CounterValues(counter_words),
         chars_list        |-> CounterKeys(counter_chars),
         frequencies_chars |-> CounterValues(counter_chars)]

\* _create_lists_and_frequencies: the four artifacts it dumps
process_create_lists_and_frequencies(captions, s, seed) ==
    LET counter_words    == get_words_counter(captions, s, seed)
        cleaned_captions == [i \in 1..Len(captions) |->
                                clean_sentence(captions[i], s.keep_case,
                                               s.remove_punctuation_words, TRUE)]
        characters_all   == Chain([i \in 1..Len(captions) |->
                                      Tokens(cleaned_captions[i])])
        specials         == [i \in 1..Len(cleaned_captions) |-> SOS_TOKEN]
                            \o [i \in 1..Len(cleaned_captions) |-> EOS_TOKEN]
        counter_chars    == IF s.use_special_tokens
                            THEN characters_all \o specials
                            ELSE characters_all
    IN  [words_list        |-> CounterKeys(counter_words),
         frequencies_words |-> CounterValues(counter_words),
         chars_list        |-> CounterKeys(counter_chars),
         frequencies_chars |-> CounterValues(counter_chars)]

\* the character tokens of a caption in _create_split_data
process_chars_caption(caption, s) ==
    LET chars == Tokens(clean_sentence(caption, s.keep_case,
                                       s.remove_punctuation_words, TRUE))
    IN  IF s.use_special_tokens
        THEN <<SOS_TOKEN>> \o chars \o <<EOS_TOKEN>>
        ELSE chars

\* the body of the captions loop of _create_split_data for one caption
process_create_split_data(csv_entry, c_ind, dir, audio, w_list, c_list, s, seed) ==
    LET file_name_audio == csv_entry.file_name
        caption         == csv_entry.captions[c_ind + 1]
        indices_words   == indices(w_list, words_caption(caption, s, seed))
        indices_chars   == indices(c_list, process_chars_caption(caption, s))
    IN  IF ~indices_words.raised /\ ~indices_chars.raised
        THEN [raised |-> FALSE,
              dir    |-> dump_numpy_object(
                             dir, file_name_template(file_name_audio, c_ind),
                             np_rec_array(file_name_audio, audio[file_name_audio],
                                          caption, c_ind, indices_words.value,
                                          indices_chars.value))]
        ELSE [raised |-> TRUE, dir |-> dir]

\* processes/dataset.py never reads remove_punctuation_chars
InitDataset ==
    /\ settings \in {s \in Settings : ~s.remove_punctuation_chars}
    /\ hash_seed \in IF settings.use_unique_words_per_caption THEN HashSeeds ELSE {0}
    /\ \E csv \in DatasetAnnotationFiles :
          csv_split = [i \in 1..Len(csv) |-> aux_get_annotations_files(csv[i], settings)]
    /\ nb_development \in 1..2
    /\ words_list = <<>> /\ frequencies_words = <<>>
    /\ chars_list = <<>> /\ frequencies_chars = <<>>
    /\ first_lists = NoLists
    /\ dir_audio = AudioFiles
    /\ dir_data = EmptyDir
    /\ first_run = EmptyDir
    /\ pc = "start"
    /\ item = 1
    /\ caption_ind = 0
    /\ error = "none"
    /\ run = 1
    /\ corrupted = NotCorrupted
    /\ NamingIdle
    /\ PoolIdle
    /\ DatasetIdle
    /\ OthersIdle

dataset_frame == <<inputs, naming_vars, pool_vars, other_vars, hash_seed, first_lists,
                   first_run, run, corrupted>>

\* _create_lists_and_frequencies is called on the development captions: the
\* four artifacts are dumped and the two lists returned
ProcessCreateListsAndFrequencies ==
    /\ pc = "start"
    /\ \E made \in {process_create_lists_and_frequencies(
                       process_captions_development, settings, hash_seed)} :
           /\ pickles' = made
           /\ words_list' = made.words_list
           /\ frequencies_words' = made.frequencies_words
           /\ chars_list' = made.chars_list
           /\ frequencies_chars' = made.frequencies_chars
    /\ pc' = "development"
    /\ UNCHANGED <<dataset_frame, dir_data, dir_evaluation, item, caption_ind, error>>

\* split_func handles one caption of the current entry: of the development
\* split first, of the evaluation split once the development split is done
ProcessCreateSplitData ==
    /\ pc \in {"development", "evaluation"}
    /\ \E step \in {process_create_split_data(
                       csv_split[item], caption_ind,
                       IF pc = "development" THEN dir_data ELSE dir_evaluation,
                       dir_audio, words_list, chars_list, settings, hash_seed)} :
          IF step.raised
          THEN /\ error' = "ValueError"
               /\ pc' = "failed"
               /\ UNCHANGED <<dir_data, dir_evaluation, item, caption_ind>>
          ELSE /\ IF pc = "development"
                  THEN dir_data' = step.dir /\ dir_evaluation' = dir_evaluation
                  ELSE dir_evaluation' = step.dir /\ dir_data' = dir_data
               /\ IF caption_ind + 1 < nb_captions
                  THEN /\ caption_ind' = caption_ind + 1
                       /\ UNCHANGED <<item, pc>>
                  ELSE /\ caption_ind' = 0
                       /\ IF item < Len(csv_split)
                          THEN /\ item' = item + 1
                               /\ pc' = IF item < nb_development
                                        THEN "development" ELSE "evaluation"
                          ELSE /\ item' = item
                               /\ pc' = "done"
               /\ error' = error
    /\ UNCHANGED <<dataset_frame, lists, pickles>>

NextDataset ==
    \/ ProcessCreateListsAndFrequencies
    \/ ProcessCreateSplitData

SpecDataset == InitDataset /\ [][NextDataset]_vars

(***************************************************************************)
(* clean_sentence on its own: a sentence and a setting of the three flags  *)
(* are given, the function is applied, and applied again to its result.    *)
(***************************************************************************)
\* most pieces a sentence given to clean_sentence is made of
MaxPieces == 3

\* '<EOS>' and '<SOS>' without a blank next to them
EOS_BARE == <<"<", "E", "O", "S", ">">>
SOS_BARE == <<"<", "S", "O", "S", ">">>

\* what a sentence is put together from: letters of both cases, blanks,
\* punctuation, the special tokens whole and in parts
SentencePieces ==
    {<<"a">>, <<"A">>, <<" ">>, <<".">>, SOS_UPPER, EOS_UPPER, SOS_BARE,
     EOS_BARE, <<"<", "S", "O">>, <<"S", ">", " ">>}

RECURSIVE SentencesUpTo(_)
SentencesUpTo(n) ==
    IF n = 0 THEN {<<>>}
    ELSE LET shorter == SentencesUpTo(n - 1)
         IN  shorter \cup {s \o p : s \in shorter, p \in SentencePieces}

\* pat in s
Contains(s, pat) ==
    \E i \in 1..(Len(s) - Len(pat) + 1) : SubSeq(s, i, i + Len(pat) - 1) = pat

\* no program is run: nothing is read, built or written
PipelineIdle ==
    /\ settings = PlainSettings
    /\ hash_seed = 0
    /\ csv_split = <<>>
    /\ nb_development = 0
    /\ words_list = <<>> /\ frequencies_words = <<>>
    /\ chars_list = <<>> /\ frequencies_chars = <<>>
    /\ first_lists = NoLists
    /\ dir_audio = AudioFiles
    /\ dir_data = EmptyDir
    /\ first_run = EmptyDir
    /\ pc = "start"
    /\ item = 1
    /\ caption_ind = 0
    /\ error = "none"
    /\ run = 1
    /\ corrupted = NotCorrupted

InitClean ==
    /\ PipelineIdle
    /\ NamingIdle
    /\ PoolIdle
    /\ DatasetIdle
    /\ FeaturesIdle
    /\ sentence \in SentencesUpTo(MaxPieces)
    /\ clean_args \in [keep_case : BOOLEAN, remove_punctuation : BOOLEAN,
                       remove_specials : BOOLEAN]
    /\ cleaned = <<>>

clean_frame == <<inputs, lists, hash_seed, first_lists, dir_data, first_run, run,
                 corrupted, dataset_vars, naming_vars, pool_vars, pc, item,
                 caption_ind, error, sentence, clean_args, features_vars>>

\* clean_sentence(sentence, keep_case, remove_punctuation, remove_specials)
CleanSentence ==
    /\ cleaned = <<>>
    /\ cleaned' = <<clean_sentence(sentence, clean_args.keep_case,
                                   clean_args.remove_punctuation,
                                   clean_args.remove_specials)>>
    /\ UNCHANGED clean_frame

\* clean_sentence on the sentence it returned, with the same flags
CleanSentenceAgain ==
    /\ Len(cleaned) = 1
    /\ cleaned' = Append(cleaned,
                         clean_sentence(cleaned[1], clean_args.keep_case,
                                        clean_args.remove_punctuation,
                                        clean_args.remove_specials))
    /\ UNCHANGED clean_frame

NextClean ==
    \/ CleanSentence
    \/ CleanSentenceAgain

SpecClean == InitClean /\ [][NextClean]_vars

(***************************************************************************)
(* The two builders of the lists on any number of captions, none included: *)
(* create_lists_and_frequencies of tools/dataset_functions.py and          *)
(* _create_lists_and_frequencies of processes/dataset.py.                  *)
(***************************************************************************)
\* the captions of no entry, of one or of both are given to the builder
InitLists ==
    /\ settings \in Settings
    /\ hash_seed \in IF settings.use_unique_words_per_caption THEN HashSeeds ELSE {0}
    /\ \E csv \in DatasetAnnotationFiles :
          csv_split = [i \in 1..Len(csv) |-> aux_get_annotations_files(csv[i], settings)]
    /\ nb_development \in 0..2
    /\ words_list = <<>> /\ frequencies_words = <<>>
    /\ chars_list = <<>> /\ frequencies_chars = <<>>
    /\ first_lists = NoLists
    /\ dir_audio = AudioFiles
    /\ dir_data = EmptyDir
    /\ first_run = EmptyDir
    /\ pc = "start"
    /\ item = 1
    /\ caption_ind = 0
    /\ error = "none"
    /\ run = 1
    /\ corrupted = NotCorrupted
    /\ NamingIdle
    /\ PoolIdle
    /\ DatasetIdle
    /\ OthersIdle

NextLists ==
    \/ CreateListsAndFrequencies
    \/ ProcessCreateListsAndFrequencies

SpecLists == InitLists /\ [][NextLists]_vars

(***************************************************************************)
(* Feature extraction: extract_features of processes/features.py handles   *)
(* every data file of the two data directories.  A directory is the        *)
(* sequence of the names on its path below the root directory; a setting   *)
(* such as 'splits/development' is the sequence of its two names.          *)
(***************************************************************************)
\* the directory settings of the two settings files
DirectorySettings ==
    {[data |-> [dir_output |-> <<"data">>, dir_data_development |-> dev,
                dir_data_evaluation |-> <<"evaluation">>],
      output |-> [dir_output |-> out, dir_development |-> <<"development">>,
                  dir_evaluation |-> <<"evaluation">>]] :
        dev \in {<<"development">>, <<"splits", "development">>},
        out \in {<<"features">>, <<"data">>}}

\* Path.joinpath
joinpath(dir, name) == dir \o name

\* Path.name of a directory: the last name on its path
path_name(dir) == <<dir[Len(dir)]>>

dir_dev == joinpath(settings_data.dir_output, settings_data.dir_data_development)
dir_eva == joinpath(settings_data.dir_output, settings_data.dir_data_evaluation)
dir_output_dev == joinpath(settings_features.dir_output, settings_features.dir_development)
dir_output_eva == joinpath(settings_features.dir_output, settings_features.dir_evaluation)

\* feature_extraction: the log mel-band energies, a function of the samples
feature_extraction(audio_data) == [log_mel_bands_of |-> audio_data]

\* the record extract_features makes of a data file
features_rec_array(data_file, keep_raw_audio_data) ==
    IF keep_raw_audio_data
    THEN [file_name   |-> data_file.file_name,
          audio_data  |-> data_file.audio_data,
          features    |-> feature_extraction(data_file.audio_data),
          caption     |-> data_file.caption,
          caption_ind |-> data_file.caption_ind,
          words_ind   |-> data_file.words_ind,
          chars_ind   |-> data_file.chars_ind]
    ELSE [file_name   |-> data_file.file_name,
          features    |-> feature_extraction(data_file.audio_data),
          caption     |-> data_file.caption,
          caption_ind |-> data_file.caption_ind,
          words_ind   |-> data_file.words_ind,
          chars_ind   |-> data_file.chars_ind]

\* parent_path of extract_features
parent_path(data_file_name) ==
    IF path_name(data_file_name[1]) = settings_data.dir_data_development
    THEN dir_output_dev
    ELSE dir_output_eva

\* the record create_split_data_sub writes for a caption, the lists built
\* from the captions of the two clips
data_record(f_name_audio, c_ind, caption, captions) ==
    LET made == create_lists_and_frequencies(captions, PlainSettings, 0)
    IN  np_rec_array(f_name_audio, AudioFiles[f_name_audio], caption, c_ind,
                     indices(made.words_list,
                             words_caption(caption, PlainSettings, 0)).value,
                     indices(made.chars_list,
                             chars_caption(caption, PlainSettings)).value)

\* the data stage has written the records of 'x.wav' into the development
\* data directory and those of 'y.wav' into the evaluation data directory
DataFiles(csv) ==
    LET captions == get_all_captions(csv)
        dir_of(i) == IF i = 1
                     THEN joinpath(settings_data.dir_output,
                                   settings_data.dir_data_development)
                     ELSE joinpath(settings_data.dir_output,
                                   settings_data.dir_data_evaluation)
        names == {<<dir_of(i), file_name_template(csv[i].file_name, k - 1)>> :
                     i \in 1..Len(csv), k \in 1..nb_captions}
    IN  [p \in names |->
            LET i == CHOOSE i \in 1..Len(csv) : csv[i].file_name = p[2][1]
            IN  data_record(p[2][1], p[2][2], csv[i].captions[p[2][2] + 1], captions)]

InitFeatures ==
    /\ PipelineIdle
    /\ NamingIdle
    /\ PoolIdle
    /\ DatasetIdle
    /\ CleanIdle
    /\ \E d \in DirectorySettings : \E keep \in BOOLEAN :
          /\ settings_data = d.data
          /\ settings_features = [keep_raw_audio_data |-> keep,
                                  dir_output |-> d.output.dir_output,
                                  dir_development |-> d.output.dir_development,
                                  dir_evaluation |-> d.output.dir_evaluation]
    /\ \E csv \in AnnotationFiles : files = DataFiles(csv)
    /\ data_files = files
    /\ todo = {p \in DOMAIN files : p[1] \in {dir_dev, dir_eva}}

\* one data file of chain(dir_dev.iterdir(), dir_eva.iterdir()) is loaded,
\* its record made and dumped under the name of the data file
ExtractFeaturesSub ==
    /\ todo # {}
    /\ \E data_file_name \in todo :
          /\ \A other \in todo : data_file_name[1] = dir_eva => other[1] = dir_eva
          /\ files' = dump_numpy_object(
                 files, <<parent_path(data_file_name), data_file_name[2]>>,
                 features_rec_array(files[data_file_name],
                                    settings_features.keep_raw_audio_data))
          /\ todo' = todo \ {data_file_name}
    /\ UNCHANGED <<inputs, lists, hash_seed, first_lists, dir_data, first_run, run,
                   corrupted, dataset_vars, naming_vars, pool_vars, pc, item,
                   caption_ind, error, clean_vars, settings_features,
                   settings_data, data_files>>

NextFeatures == ExtractFeaturesSub

SpecFeatures == InitFeatures /\ [][NextFeatures]_vars

(***************************************************************************)
(* A split that lost record files between its materialisation and its      *)
(* check: one record file, or every record file of one audio file.         *)
(***************************************************************************)
\* one record file is removed
RemoveRecord ==
    /\ pc = "created"
    /\ corrupted = NotCorrupted
    /\ \E p \in DOMAIN dir_data :
          /\ dir_data' = Restrict(dir_data, DOMAIN dir_data \ {p})
          /\ corrupted' = [path |-> p, kind |-> "removed"]
    /\ UNCHANGED <<inputs, naming_vars, pool_vars, dataset_vars, other_vars, hash_seed, lists,
                   first_lists, first_run, pc, item, caption_ind, error, run>>

NextIncomplete ==
    \/ CreateListsAndFrequencies
    \/ CreateSplitDataSub
    \/ RemoveRecord
    \/ RemoveRecords
    \/ CheckDataForSplitSub

SpecIncomplete == InitCorrupt /\ [][NextIncomplete]_vars

(***************************************************************************)
(* Counting the files of the audio directory and of the data directory.    *)
(***************************************************************************)
\* deque(zip(directory.iterdir(), counter)); next(counter): the counter is
\* advanced once for every file, so the next count is the number of files
files_counted(directory) == Cardinality(DOMAIN directory)

\* check_amount_of_files: the two counts
check_amount_of_files(audio, data) == <<files_counted(audio), files_counted(data)>>

(***************************************************************************)
(* Properties.                                                             *)
(***************************************************************************)
\* the vocabulary was built from the captions of the very entries materialised
VocabularyFromSplit == nb_development = Len(csv_split)

AudioErrors == {"AudioLength", "AudioData"}

\* C1: a split materialised with vocabularies built from its own captions
\* and left unmodified passes check_data_for_split: no entry's check raises.
C1_UnmodifiedSplitVerifies ==
    (VocabularyFromSplit /\ corrupted = NotCorrupted) => pc # "check_failed"

\* C2: for every record the materialiser wrote, decoding words_ind through
\* the word list gives the word tokens of the record's stored caption, and
\* decoding chars_ind through the character list gives its character tokens
\* (with the start and end tokens when special tokens are in use).
C2_IndexRoundTrip ==
    \A p \in DOMAIN dir_data :
        LET r == dir_data[p]
        IN  /\ \A i \in 1..Len(r.words_ind) : ValidIndex(words_list, r.words_ind[i])
            /\ \A i \in 1..Len(r.chars_ind) : ValidIndex(chars_list, r.chars_ind[i])
            /\ \E seed \in HashSeeds :
                  decode(words_list, r.words_ind) = words_caption(r.caption, settings, seed)
            /\ decode(chars_list, r.chars_ind) = chars_caption(r.caption, settings)

\* C2 witness: a record of several word indices, bracketed character indices
C2_Witness ==
    \E p \in DOMAIN dir_data :
        /\ settings.use_special_tokens
        /\ Len(dir_data[p].words_ind) >= 3
        /\ Len(dir_data[p].chars_ind) >= 5
        /\ \E i, j \in 1..Len(dir_data[p].words_ind) :
              dir_data[p].words_ind[i] # dir_data[p].words_ind[j]

\* the record files of the damaged record's entry other than the damaged one
others_clean ==
    \A q \in matching_files(dir_data, csv_split[entry_of(corrupted.path)]) :
        q # corrupted.path => verifies_cleanly(q)

\* C3: once one sample or the length of the audio_data of a cleanly
\* verifying record is changed, the check of that record gives an audio
\* error, the verification never completes, and the entry's check raises an
\* audio error when the entry's other records are clean.
C3_AudioCorruptionDetected ==
    corrupted.kind \in {"sample", "length"} =>
        /\ record_error(dir_data, corrupted.path, csv_split[entry_of(corrupted.path)],
                        words_list, chars_list, settings, dir_audio) \in AudioErrors
        /\ pc # "checked"
        /\ (pc = "check" => item <= entry_of(corrupted.path))
        /\ (pc = "check_failed" /\ item = entry_of(corrupted.path) /\ others_clean)
              => error \in AudioErrors

\* C3 witness: the check of the entry of an audio-damaged record has raised
C3_Witness ==
    /\ corrupted.kind \in {"sample", "length"}
    /\ pc = "check_failed"
    /\ item = entry_of(corrupted.path)
    /\ error \in AudioErrors

\* C4: every change of the stored caption of a cleanly verifying record to
\* another text makes the check of that record raise the caption error.
C4_CaptionCorruptionDetected ==
    corrupted.kind = "caption" =>
        record_error(dir_data, corrupted.path, csv_split[entry_of(corrupted.path)],
                     words_list, chars_list, settings, dir_audio) = "Caption"

\* C5: every change of one element of words_ind or chars_ind of a cleanly
\* verifying record to another integer makes the check of that record raise.
C5_IndexCorruptionDetected ==
    corrupted.kind \in {"words_ind", "chars_ind"} =>
        record_error(dir_data, corrupted.path, csv_split[entry_of(corrupted.path)],
                     words_list, chars_list, settings, dir_audio) # "none"

\* the word tokens of the captions in reading order: entry by entry, caption
\* column by caption column, left to right in the text
tokens_in_reading_order ==
    Chain([i \in 1..Len(captions_development) |->
              Split(clean_sentence(captions_development[i], settings.keep_case,
                                   settings.remove_punctuation_words,
                                   ~settings.use_special_tokens))])

first_position(list, x) == CHOOSE i \in 1..Len(list) :
                               list[i] = x /\ \A j \in 1..(i - 1) : list[j] # x

\* words is the list of the distinct tokens in first-encounter order and
\* frequencies the parallel list of their numbers of occurrences
FirstEncounterOrder(words, frequencies, tokens) ==
    /\ \A i \in 1..Len(tokens) : InList(words, tokens[i])
    /\ \A i \in 1..Len(words) : InList(tokens, words[i])
    /\ \A i, j \in 1..Len(words) :
          i < j => /\ words[i] # words[j]
                   /\ first_position(tokens, words[i]) < first_position(tokens, words[j])
    /\ Len(frequencies) = Len(words)
    /\ \A i \in 1..Len(words) : frequencies[i] = Count(tokens, words[i])

\* C6 as stated: the word list is the distinct word tokens in the order of
\* their first occurrence in the captions, the frequency list is parallel to
\* it and holds the numbers of occurrences, under every setting.
C6_FirstEncounterOrdering_Original ==
    pc = "create" =>
        FirstEncounterOrder(words_list, frequencies_words, tokens_in_reading_order)

\* C6 amended: when use_unique_words_per_caption is false, the word list is
\* the distinct word tokens in the order of their first occurrence in the
\* captions and the frequency list holds their numbers of occurrences.
C6_FirstEncounterOrdering ==
    (pc = "create" /\ ~settings.use_unique_words_per_caption) =>
        FirstEncounterOrder(words_list, frequencies_words, tokens_in_reading_order)

\* C6 witness: a built word list that is neither alphabetical nor ordered by
\* frequency
C6_Witness ==
    /\ pc = "create"
    /\ ~settings.use_unique_words_per_caption
    /\ words_list = <<<<".">>, <<"a">>, <<"A">>, <<"a", ".">>>>
    /\ frequencies_words = <<1, 2, 1, 1>>

\* C7 as stated: a second invocation on the same captions and settings
\* persists the same four lists as the first, under every setting.
C7_Determinism_Original ==
    pc = "rebuilt" => persisted = first_lists

\* C7 amended: when use_unique_words_per_caption is false, a second
\* invocation on the same captions and settings persists the same four lists.
C7_Determinism ==
    (pc = "rebuilt" /\ ~settings.use_unique_words_per_caption)
        => persisted = first_lists

\* C7 witness: a second invocation that persisted several words
C7_Witness ==
    /\ pc = "rebuilt"
    /\ ~settings.use_unique_words_per_caption
    /\ Len(words_list) >= 3
    /\ Len(chars_list) >= 4

\* the positions of the split before position (i, c) of the materialiser
Before(i, c) ==
    {<<j, d>> \in (1..Len(csv_split)) \X (0..(nb_captions - 1)) :
        j < i \/ (j = i /\ d < c)}

\* the caption has a word or a character token the lists do not have
OutOfVocabulary(caption) ==
    \/ ~AllIn(words_list, words_caption(caption, settings, hash_seed))
    \/ ~AllIn(chars_list, chars_caption(caption, settings))

\* C8: a caption with a token outside the given lists ends the
\* materialisation with an error and gets no record; the materialiser only
\* moves past a caption by writing its record, and every record holds one
\* index per token of its caption, each of a token of the list.
C8_OutOfVocabularyIsFatal ==
    /\ \A p \in DOMAIN dir_data :
          /\ ~OutOfVocabulary(dir_data[p].caption)
          /\ Len(dir_data[p].words_ind)
                = Len(words_caption(dir_data[p].caption, settings, hash_seed))
          /\ Len(dir_data[p].chars_ind)
                = Len(chars_caption(dir_data[p].caption, settings))
    /\ pc = "failed" =>
          /\ error = "ValueError"
          /\ OutOfVocabulary(csv_split[item].captions[caption_ind + 1])
          /\ file_name_template(csv_split[item].file_name, caption_ind)
                \notin DOMAIN dir_data
    /\ pc \in {"create", "failed"} =>
          \A q \in Before(item, caption_ind) :
              /\ ~OutOfVocabulary(csv_split[q[1]].captions[q[2] + 1])
              /\ file_name_template(csv_split[q[1]].file_name, q[2]) \in DOMAIN dir_data

\* C8 witness: the materialisation failed on the second caption of an entry
\* whose first caption got its record
C8_Witness ==
    /\ pc = "failed"
    /\ caption_ind = 1
    /\ file_name_template(csv_split[item].file_name, 0) \in DOMAIN dir_data

\* C9: with special tokens in use and the lists built from the same
\* captions, every caption is materialised, into a chars_ind whose first
\* element decodes to the start token and whose last decodes to the end token.
C9_SpecialTokenInjection ==
    (settings.use_special_tokens /\ VocabularyFromSplit) =>
        /\ pc # "failed"
        /\ \A p \in DOMAIN dir_data :
              LET inds == dir_data[p].chars_ind
              IN  /\ Len(inds) >= 2
                  /\ list_getitem(chars_list, inds[1]) = SOS_TOKEN
                  /\ list_getitem(chars_list, inds[Len(inds)]) = EOS_TOKEN

\* C10 as stated: a second run on the same entries, lists and settings
\* leaves the record files of the first run, under every setting.
C10_Idempotent_Original ==
    (run = 2 /\ pc \in {"created", "failed"}) => dir_data = first_run

\* C10 amended: when use_unique_words_per_caption is false, a second run on
\* the same entries, lists and settings leaves the same record files with
\* the same contents as the first run.
C10_Idempotent ==
    (run = 2 /\ pc \in {"created", "failed"}
        /\ ~settings.use_unique_words_per_caption) => dir_data = first_run

\* C10 witness: a second run that wrote every record of the split again
C10_Witness ==
    /\ run = 2
    /\ pc = "created"
    /\ ~settings.use_unique_words_per_caption
    /\ Cardinality(DOMAIN dir_data) = nb_captions * Len(csv_split)
    /\ \E p \in DOMAIN dir_data : Len(dir_data[p].words_ind) >= 2

\* C11: any two saves for distinct (audio file name, caption index) pairs go
\* to distinct paths, so no record file is written for two pairs.
C11_ExclusiveOutputFiles ==
    \A w1 \in writes : \A w2 \in writes :
        (w1.file_name # w2.file_name \/ w1.caption_ind # w2.caption_ind)
            => w1.path # w2.path

\* C12: the stem parsed from a record path is the stem of an entry's audio
\* file exactly when the record was written for that audio file.
C12_StemRoundTrip ==
    \A p \in DOMAIN records : \A i \in 1..Len(clips) :
        (parsed_stem(p) = path_stem(clips[i])) <=> (records[p].file_name = clips[i])

\* C19: the check of an entry whose audio file exists ends with "no data"
\* exactly when the directory holds no record written for the entry's audio
\* file.
C19_NoDataIffNoRecord ==
    pc \in {"match", "matched", "match_failed"}
        => ((error = "NoData") <=> (records_of(records, clips[item]) = {}))

\* the items on which sub_f was started, each once, in input order
started_in_order == \A k \in 1..Len(started) : started[k] = k

\* C13: with nb_workers <= 1 no pool is ever created, at most one call of
\* sub_f is in progress, the calls are started in input order, and a call is
\* started only when every earlier one has finished.
C13_SequentialMode ==
    nb_workers <= 1 =>
        /\ pool = "none"
        /\ Cardinality(running(tasks)) <= 1
        /\ started_in_order
        /\ \A i \in 1..Len(tasks) :
              tasks[i] # "pending" => \A j \in 1..(i - 1) : tasks[j] = "done"

C13_Witness ==
    /\ nb_workers <= 1
    /\ pc = "returned"
    /\ Len(tasks) >= 2
    /\ started = <<1, 2>>

\* C14: once sub_f has raised on an item, sub_f is started on no further
\* item.
C14_FailFast ==
    [][(\E i \in 1..Len(tasks) : tasks[i] = "raised") => started' = started]_vars

\* C15: do_sub_function returns only when sub_f has been started exactly
\* once on every item and every call has finished, and it always comes to
\* return or raise.
C15_Completion ==
    /\ [](pc = "returned" =>
             /\ \A i \in 1..Len(tasks) :
                   /\ tasks[i] = "done"
                   /\ Cardinality({k \in 1..Len(started) : started[k] = i}) = 1
             /\ Len(started) = Len(tasks))
    /\ <>(pc \in {"returned", "raised"})

C15_Witness ==
    /\ pc = "returned"
    /\ nb_workers > 1
    /\ Len(tasks) >= 2
    /\ started # <<>>

\* C16: when do_sub_function has ended in pool mode, the record files and
\* their contents are those the sequential run leaves.
C16_ParallelEqualsSequential ==
    (pc \in {"returned", "raised"} /\ nb_workers > 1) =>
        dir_data = sequential_run(csv_split, 1, 0, EmptyDir, dir_audio, words_list,
                                  chars_list, settings, hash_seed)

\* the records of both splits
all_records == {dir_data[p] : p \in DOMAIN dir_data}
                   \cup {dir_evaluation[p] : p \in DOMAIN dir_evaluation}

\* a step leaves the lists in use and the pickle files as they are
lists_kept ==
    /\ words_list' = words_list
    /\ chars_list' = chars_list
    /\ pickles' = pickles

\* the pickle files hold the lists and frequencies of the development
\* captions, the lists in use are the dumped ones and every record is
\* indexed against them
lists_built ==
    /\ pickles = process_create_lists_and_frequencies(
                     Chain([i \in 1..nb_development |-> csv_split[i].captions]),
                     settings, hash_seed)
    /\ words_list = pickles.words_list
    /\ chars_list = pickles.chars_list
    /\ \A r \in all_records :
          /\ AllIn(words_list, decode(words_list, r.words_ind))
          /\ decode(chars_list, r.chars_ind) = process_chars_caption(r.caption, settings)

\* C17: whenever a record of either split exists, the four pickle files hold
\* the lists and frequencies of the development captions and the records are
\* indexed against these lists; once built, lists and pickle files stay as
\* they are through both splits.
C17_VocabularyBeforeRecords ==
    [](all_records # {} => lists_built)
        /\ [][(pc \in {"development", "evaluation"}) => lists_kept]_vars

C17_Witness ==
    /\ pc = "done"
    /\ nb_development = 1
    /\ dir_data # EmptyDir
    /\ dir_evaluation # EmptyDir

\* a step leaves the word list, the character list, the annotation entries
\* and the audio files as they are
inputs_kept ==
    /\ words_list' = words_list
    /\ chars_list' = chars_list
    /\ csv_split' = csv_split
    /\ dir_audio' = dir_audio

\* C18: a step of a materialisation task or of a verification task, whether
\* it succeeds or raises, leaves the word list, the character list, the
\* annotation entries and the audio files unchanged, and a step of a
\* verification task leaves every record file unchanged too.
C18_ReadOnlyInputs ==
    [][/\ (pc \in {"create", "created", "check"}) => inputs_kept
       /\ (pc \in {"created", "check"}) => dir_data' = dir_data]_vars

C18_Witness ==
    /\ pc = "check_failed"
    /\ DOMAIN dir_data # {}
    /\ words_list # <<>>

\* the audio file of entry j exists
audio_exists(j) == csv_split[j].file_name \in DOMAIN dir_audio

\* C20: the check of an entry whose audio file does not exist ends with the
\* audio-missing error, whatever record files the directory holds, and no
\* such entry ever passes the check.
C20_AudioMissingFirst ==
    /\ (pc = "check_failed" /\ ~audio_exists(item)) => error = "AudioMissing"
    /\ pc = "check" => \A j \in 1..(item - 1) : audio_exists(j)
    /\ pc = "checked" => \A j \in 1..Len(csv_split) : audio_exists(j)

C20_Witness ==
    /\ pc = "check_failed"
    /\ ~audio_exists(item)
    /\ matching_files(dir_data, csv_split[item]) = {}
    /\ dir_data # EmptyDir

\* C24: whatever keep_case and remove_punctuation are, the sentence that
\* clean_sentence returns with remove_specials true holds no start marker
\* ('<sos> ', '<SOS> ') and no end marker ('<eos>', '<EOS>').
C24_SpecialTokenStripping ==
    (cleaned # <<>> /\ clean_args.remove_specials) =>
        \A marker \in {SOS_UPPER, SOS_LOWER, EOS_BARE, EOS_TOKEN} :
            ~Contains(cleaned[1], marker)

\* C28: with the flags fixed, clean_sentence applied to its own result
\* returns that result.
C28_NormalizationIdempotent ==
    Len(cleaned) = 2 => cleaned[2] = cleaned[1]

\* the captions the builder that ran was given, and the characters of their
\* cleaned forms
captions_given ==
    IF pc = "create" THEN captions_development ELSE process_captions_development

characters_given ==
    Chain([i \in 1..Len(captions_given) |->
              Tokens(clean_sentence(captions_given[i], settings.keep_case,
                                    IF pc = "create"
                                    THEN settings.remove_punctuation_chars
                                    ELSE settings.remove_punctuation_words,
                                    TRUE))])

lists_made == pc \in {"create", "development"}

\* C22: on an empty caption list the builder returns an empty word list and
\* an empty character list and persists four empty artifacts, with
\* use_special_tokens true as well as false.
C22_EmptyInput ==
    (lists_made /\ captions_given = <<>>) =>
        /\ words_list = <<>> /\ frequencies_words = <<>>
        /\ chars_list = <<>> /\ frequencies_chars = <<>>
        /\ pc = "development" => pickles = NoLists

C22_Witness ==
    /\ lists_made
    /\ captions_given = <<>>
    /\ settings.use_special_tokens
    /\ chars_list = <<>>

\* what C23 asks of the character list and its frequencies
special_tokens_counted ==
    /\ \A token \in {SOS_TOKEN, EOS_TOKEN} :
          /\ Count(chars_list, token) = 1
          /\ \A i \in 1..Len(chars_list) :
                chars_list[i] = token => frequencies_chars[i] = Len(captions_given)
    /\ \A i \in 1..Len(chars_list) :
          Len(chars_list[i]) = 1 =>
              frequencies_chars[i] = Count(characters_given, chars_list[i])

\* C23: with use_special_tokens true the character list holds '<sos>' and
\* '<eos>', each as one token whose persisted frequency is the number of
\* captions given, and no single character gains frequency from them.
C23_SpecialTokensInCharacters ==
    (lists_made /\ settings.use_special_tokens) => special_tokens_counted

\* C23 as amended: the same, when at least one caption is given.
C23_SpecialTokensOfSomeCaption ==
    (lists_made /\ settings.use_special_tokens /\ captions_given # <<>>) =>
        special_tokens_counted

C23_Witness ==
    /\ lists_made
    /\ settings.use_special_tokens
    /\ Len(captions_given) > 1
    /\ special_tokens_counted

\* C21: with the lists built from the development captions, no caption of a
\* development entry fails a lookup: create_split_data_sub can end with an
\* error only on an entry after the development entries.
C21_DevelopmentInVocabulary ==
    (pc = "failed" /\ run = 1) => item > nb_development

\* the data files extract_features has handled
handled == DOMAIN data_files \ todo

\* the directory the record of a data file is to be written to
output_directory(data_file_name) ==
    IF data_file_name[1] = dir_dev THEN dir_output_dev ELSE dir_output_eva

\* C26: a data file that extract_features has handled is as it was, and the
\* output directory of its split (development for a file of the development
\* data directory, evaluation for any other) holds a record under its name
\* with the same file_name, caption, caption_ind, words_ind and chars_ind,
\* and with the audio_data exactly when keep_raw_audio_data is set.
C26_FeaturesNotInPlace ==
    \A p \in handled :
        LET written == <<output_directory(p), p[2]>>
        IN  /\ p \in DOMAIN files
            /\ files[p] = data_files[p]
            /\ written \in DOMAIN files
            /\ files[written].file_name = data_files[p].file_name
            /\ files[written].caption = data_files[p].caption
            /\ files[written].caption_ind = data_files[p].caption_ind
            /\ files[written].words_ind = data_files[p].words_ind
            /\ files[written].chars_ind = data_files[p].chars_ind
            /\ "audio_data" \in DOMAIN files[written]
                   <=> settings_features.keep_raw_audio_data
            /\ settings_features.keep_raw_audio_data =>
                   files[written].audio_data = data_files[p].audio_data

\* C25: the caption column the verifier reads for a record with the stored
\* caption_ind c is column c + 1, the one create_split_data_sub made the
\* record from: every record written holds the caption of that column, and
\* the check of an entry never ends with a missing column or a caption
\* mismatch.
C25_CaptionIndexMapping ==
    /\ \A p \in DOMAIN dir_data :
          LET csv_entry == csv_split[entry_of(p)]
              c         == dir_data[p].caption_ind
          IN  /\ c = p[2]
              /\ c + 1 \in 1..nb_captions
              /\ dir_data[p].caption = csv_entry.captions[c + 1]
    /\ pc \in {"check", "checked", "check_failed"} =>
          error \notin {"KeyError", "Caption"}

C25_Witness ==
    /\ pc = "checked"
    /\ error = "none"
    /\ \E p \in DOMAIN dir_data : dir_data[p].caption_ind = nb_captions - 1

\* C29: when check_data_for_split has ended without an error, the data
\* directory holds a record file for every entry of the split and every
\* caption index 0..nb_captions-1.
C29_VerifiedIsComplete ==
    pc = "checked" =>
        \A i \in 1..Len(csv_split) : \A k \in 0..(nb_captions - 1) :
            file_name_template(csv_split[i].file_name, k) \in DOMAIN dir_data

\* C29 as amended: when check_data_for_split has ended without an error, the
\* data directory holds at least one record file of every entry of the split.
C29_VerifiedHasRecords ==
    /\ pc = "checked" =>
          \A i \in 1..Len(csv_split) : matching_files(dir_data, csv_split[i]) # {}
    /\ pc = "check" =>
          \A i \in 1..(item - 1) : matching_files(dir_data, csv_split[i]) # {}

C29_Witness ==
    /\ pc = "checked"
    /\ error = "none"
    /\ corrupted.kind = "removed"
    /\ \E i \in 1..Len(csv_split) :
          Cardinality(matching_files(dir_data, csv_split[i])) = 1

\* the items of do_sub_function whose task ended with an exception
raised_tasks == {i \in 1..Len(tasks) : tasks[i] = "raised"}

\* no other entry of the split names the audio file of entry i
name_unshared(i) ==
    \A j \in 1..Len(csv_split) :
        csv_split[j].file_name = csv_split[i].file_name => j = i

\* the record files of the captions before the failing one are there, the
\* record files of the failing caption and the later ones are not
failed_entries_left ==
    \A i \in raised_tasks :
        /\ progress[i] < nb_captions
        /\ \A c \in 0..(progress[i] - 1) :
              file_name_template(csv_split[i].file_name, c) \in DOMAIN dir_data
        /\ name_unshared(i) =>
              \A c \in progress[i]..(nb_captions - 1) :
                  file_name_template(csv_split[i].file_name, c) \notin DOMAIN dir_data
        /\ ~uses_pool(nb_workers) =>
              \A j \in 1..(i - 1) : \A c \in 0..(nb_captions - 1) :
                  file_name_template(csv_split[j].file_name, c) \in DOMAIN dir_data

\* no step removes a record file, the step of the failing caption writes
\* none, a failed task goes no further, and the record of an audio file
\* that one entry only names is written once
nothing_cleaned ==
    /\ \A p \in DOMAIN dir_data : p \in DOMAIN dir_data'
    /\ raised_tasks' # raised_tasks => dir_data' = dir_data
    /\ \A i \in raised_tasks : i \in raised_tasks' /\ progress'[i] = progress[i]
    /\ \A p \in DOMAIN dir_data :
          (\A i, j \in 1..Len(csv_split) :
              (csv_split[i].file_name = p[1] /\ csv_split[j].file_name = p[1])
                  => i = j)
              => dir_data'[p] = dir_data[p]

\* C27: when create_split_data_sub fails at caption k of an entry, the record
\* files of the captions 0..k-1 of the entry and of the earlier entries stay
\* on disk as they are, and no record file is written for caption k or a
\* later caption of the entry.
C27_NoCleanupOnFailure == []failed_entries_left /\ [][nothing_cleaned]_vars

C27_Witness ==
    /\ pc = "raised"
    /\ \E i \in raised_tasks :
          /\ progress[i] = 1
          /\ i > 1
          /\ name_unshared(i)
          /\ file_name_template(csv_split[i].file_name, 0) \in DOMAIN dir_data
          /\ file_name_template(csv_split[i].file_name, 1) \notin DOMAIN dir_data

\* C30: after create_split_data has ended without an error on entries with
\* pairwise distinct audio file names, into an empty directory, the directory
\* holds one record file for every entry and every caption_ind in
\* 0..nb_captions-1 and no other, so that check_amount_of_files counts
\* nb_captions times the number of entries as data files.
C30_RecordCount ==
    (/\ pc \in {"saved", "match", "matched", "match_failed"}
     /\ \A i, j \in 1..Len(clips) : clips[i] = clips[j] => i = j) =>
        /\ \A i \in 1..Len(clips) : \A c \in 0..(nb_captions - 1) :
              \E p \in DOMAIN records :
                  records[p] = [file_name |-> clips[i], caption_ind |-> c]
        /\ check_amount_of_files(dir_audio, records)[2] = nb_captions * Len(clips)

====
